---- MODULE Spec2Model ----
(***************************************************************************)
(* A model of shsf-hub.py: the relay between a BLE serial peripheral       *)
(* (HM-10), an MQTT broker and a guizero window.                           *)
(*                                                                         *)
(* Three threads run the program: the GUI (main) thread, the paho MQTT     *)
(* thread that calls on_message, and the BLE worker thread that calls      *)
(* ble_worker and, from inside btfpy.Read_notify / btfpy.Sleep_ms,         *)
(* ble_callback.  Each thread has a program counter named after the        *)
(* source line it is about to execute.                                     *)
(*                                                                         *)
(* Python strings are sequences of one-character strings, so that          *)
(* str.strip, str.split, int() and the f-strings that build topics are     *)
(* computed and not assumed.  The texts of log lines and of the status     *)
(* label are tuples of their literal parts and their arguments.            *)
(***************************************************************************)
EXTENDS Integers, Sequences, FiniteSets, TLC

(***************************************************************************)
(* Bounds of the model.                                                    *)
(***************************************************************************)
\* Inputs over a run: presses of a button, MQTT messages, BLE notifications,
\* heartbeat ticks, SIGINT.
MaxEvents == 3
\* Messages delivered to on_message, where it is checked by itself.
MaxMessages == 2

(***************************************************************************)
(* Configuration (lines 13-20).                                            *)
(***************************************************************************)
GUI_SENDER == <<"h", "u", "b">>
INITIAL_SENDER == <<"U", "n", "k", "n", "o", "w", "n">>
TOPIC_HEARTBEAT == <<"s","h","s","f","/","h","e","a","r","t","b","e","a","t">>
TOPIC_RSSI ==
  <<"s","h","s","f","/","g","i","e","b","e","l","_","t","h","r","o","t","t","l","e","/","r","s","s","i">>
INITIAL_NAME == <<"Unknown Device">>

\* The literal parts of the reply topic f"shsf/{mqtt_sender}/responses".
RESP_PREFIX == <<"s","h","s","f","/">>
RESP_SUFFIX == <<"/","r","e","s","p","o","n","s","e","s">>

\* The carriage return appended to every command (line 81).
CR == "\r"

(***************************************************************************)
(* Inputs.                                                                 *)
(***************************************************************************)
CMD_HORN == <<"h">>
CMD_BLOCKS_ON == <<"b", "a", " ", "o">>

\* The commands of the two buttons (lines 223-224).
ButtonCommands == {CMD_HORN, CMD_BLOCKS_ON}

TOPIC_ALICE ==
  <<"s","h","s","f","/","a","l","i","c","e","/","c","o","m","m","a","n","d","s">>

\* Topics the two subscriptions (lines 261, 264) let through.
CommandTopics == {TOPIC_ALICE}
\* Payloads of inbound command messages.
CommandPayloads == {CMD_HORN}
\* Payloads of inbound telemetry messages.
RssiPayloads == {<<"-", "8", "0">>, <<"-", "5", "0">>, <<"l", "o", "w">>}

\* Topics on_message is given where it is checked by itself: with three
\* segments, with two, with an empty second segment, with one segment, empty.
TOPIC_BOB == <<"s","h","s","f","/","b","o","b">>
TOPIC_EMPTY_SENDER == <<"s","h","s","f","/","/","c","o","m","m","a","n","d","s">>
TOPIC_ONE_SEGMENT == <<"s","h","s","f">>
AllTopics ==
  {TOPIC_RSSI, TOPIC_ALICE, TOPIC_BOB, TOPIC_EMPTY_SENDER, TOPIC_ONE_SEGMENT,
   <<>>}

\* Telemetry payloads int() accepts: "-40" .. "-99", "-100" .. "-119", "0",
\* and " -75 " (int() strips the whitespace).
DbmPayloads ==
  {<<"-", a, b>> : a \in {"4", "5", "6", "7", "8", "9"},
                   b \in {"0", "1", "2", "3", "4", "5", "6", "7", "8", "9"}}
    \cup {<<"-", "1", a, b>> :
            a \in {"0", "1"},
            b \in {"0", "1", "2", "3", "4", "5", "6", "7", "8", "9"}}
    \cup {<<"0">>, <<" ", "-", "7", "5", " ">>}

\* Telemetry payloads int() rejects: "low", "", "-", "-7.5", "- 75".
MalformedPayloads ==
  {<<"l", "o", "w">>, <<>>, <<"-">>, <<"-", "7", ".", "5">>,
   <<"-", " ", "7", "5">>}

\* The payloads that come on a topic.
PayloadsOn(topic) ==
  IF topic = TOPIC_RSSI THEN DbmPayloads \cup MalformedPayloads
  ELSE CommandPayloads

\* Byte lists the peripheral notifies: "OK", "DONE\r\n".
NotifyData == {<<79, 75>>, <<68, 79, 78, 69, 13, 10>>}

\* The name btfpy.Device_name returns for the node.
DEVICE_NAME == <<"H", "M", "1", "0", " ">>

\* The reading of the wall clock, datetime.now().strftime("%H:%M:%S").
NOW == "HH:MM:SS"

(***************************************************************************)
(* Python's string functions.                                              *)
(***************************************************************************)
Whitespace == {" ", "\t", "\n", "\r", "\f"}

\* chr(b) for the bytes the model uses.
Chr(b) ==
  CASE b = 10 -> "\n"
    [] b = 13 -> "\r"
    [] b = 32 -> " "
    [] b = 68 -> "D"
    [] b = 69 -> "E"
    [] b = 75 -> "K"
    [] b = 78 -> "N"
    [] b = 79 -> "O"

\* "".join(chr(b) for b in data)
Decode(data) == [i \in 1..Len(data) |-> Chr(data[i])]

RECURSIVE LStrip(_)
LStrip(s) ==
  IF s # <<>> /\ Head(s) \in Whitespace THEN LStrip(Tail(s)) ELSE s

RECURSIVE RStrip(_)
RStrip(s) ==
  IF s # <<>> /\ s[Len(s)] \in Whitespace
  THEN RStrip(SubSeq(s, 1, Len(s) - 1))
  ELSE s

\* str.strip()
Strip(s) == RStrip(LStrip(s))

\* str.split(sep): the list of the parts between the separators.
RECURSIVE Split(_, _)
Split(s, sep) ==
  IF \E i \in 1..Len(s) : s[i] = sep
  THEN LET i == CHOOSE k \in 1..Len(s) :
                  s[k] = sep /\ \A j \in 1..(k - 1) : s[j] # sep
       IN <<SubSeq(s, 1, i - 1)>> \o Split(SubSeq(s, i + 1, Len(s)), sep)
  ELSE <<s>>

Digits == {"0", "1", "2", "3", "4", "5", "6", "7", "8", "9"}

DigitVal(c) ==
  CASE c = "0" -> 0 [] c = "1" -> 1 [] c = "2" -> 2 [] c = "3" -> 3
    [] c = "4" -> 4 [] c = "5" -> 5 [] c = "6" -> 6 [] c = "7" -> 7
    [] c = "8" -> 8 [] c = "9" -> 9

RECURSIVE DecValue(_)
DecValue(s) ==
  IF s = <<>> THEN 0
  ELSE 10 * DecValue(SubSeq(s, 1, Len(s) - 1)) + DigitVal(s[Len(s)])

\* Whether int(s) returns (TRUE) or raises ValueError (FALSE).
IntOk(s) ==
  LET t == Strip(s)
      d == IF t # <<>> /\ Head(t) \in {"-", "+"} THEN Tail(t) ELSE t
  IN d # <<>> /\ \A i \in 1..Len(d) : d[i] \in Digits

\* int(s), where it returns.
IntOf(s) ==
  LET t == Strip(s)
  IN IF Head(t) = "-" THEN 0 - DecValue(Tail(t))
     ELSE IF Head(t) = "+" THEN DecValue(Tail(t))
     ELSE DecValue(t)

Min(a, b) == IF a < b THEN a ELSE b
Max(a, b) == IF a > b THEN a ELSE b

\* A conversion that does not clamp.
QualityUnclamped(dbm) == 2 * (dbm + 100)

\* Lines 125-126: dBm to a percentage between 0 and 100.
Quality(dbm) == Max(0, Min(100, 2 * (dbm + 100)))

\* Lines 131-133: the colour of the signal indicator.
HealthColor(quality) ==
  IF quality > 75 THEN "green"
  ELSE IF quality > 40 THEN "orange"
  ELSE "red"

\* A sender taken from the first segment.
SenderOfFirst(topic) == Split(topic, "/")[1]

\* Lines 142-143: the sender named by a topic.
SenderOf(topic) ==
  LET parts == Split(topic, "/")
  IN IF Len(parts) > 1 THEN parts[2] ELSE <<"u","n","k","n","o","w","n">>

\* Line 36: the reply topic of a sender.
ResponseTopic(sender) == RESP_PREFIX \o sender \o RESP_SUFFIX

\* Lines 183-184: the entry add_to_log makes of a message.
NewEntry(message) == <<"[", NOW, "] ", message>>

\* An add_to_log that puts the new entry at the top.
AddToLogTop(log, message) == <<NewEntry(message)>> \o log

\* Line 188: add_to_log(message) on a log window.
AddToLog(log, message) == Append(log, NewEntry(message))

\* Lines 199-201: update_status(message, color).
UpdateStatus(message, color) == [value |-> message, text_color |-> color]


(***************************************************************************)
(* State.                                                                  *)
(***************************************************************************)
VARIABLES
  mqtt_sender,    \* line 20: the global the notification callback routes by
  command_queue,  \* line 22: queue.Queue(); .payload is the item queued, .id
                  \* and .sender are history of the call that queued it
  running,        \* line 23
  hm10_name,      \* line 24
  status_label,   \* line 216: the status Text
  health_label,   \* line 246: the signal Text
  log_window,     \* line 249: the lines of the log TextBox
  mqtt_loop,      \* the paho network thread runs (loop_start .. loop_stop)
  app_open,       \* the window exists (App() .. app.destroy())
  poweroff,       \* "sudo shutdown -h now" has been issued
  alive,          \* the process runs
  pc,             \* per thread, the line it is about to execute
  frame,          \* per thread, the arguments of its call of process_command
  cmd,            \* ble_worker's local cmd, with the history of its item
  cb,             \* the activation of ble_callback, when there is one: .pc
                  \* and .message are its state; the other fields are
                  \* history: the bytes notified, the numbers of submits
                  \* and of writes when it was called, the mqtt_sender it
                  \* read at line 34, what it published
  ble_writes,     \* history: the writes btfpy.Write_ctic made
  published,      \* history: the messages mqtt_client.publish sent
  submits,        \* history: the calls of process_command, in the order of
                  \* their assignment to mqtt_sender (line 107)
  enqueued,       \* history: the calls of process_command, in the order of
                  \* their command_queue.put (line 113)
  notifs,         \* history: the returned calls of ble_callback, each with
                  \* the number of submits and the status label at its
                  \* return
  events,         \* history: the number of inputs so far
  inbox,          \* history: the messages on_message was called with
  raised,         \* history: the exceptions raised in the main thread, each
                  \* with the line that raised it
  bt_calls,       \* history: what btfpy.Init_blue, Connect_node and Ctic_ok
                  \* returned, of those ble_worker called
  stop            \* history: the numbers of writes and of calls of
                  \* process_command when running was first cleared

vars ==
  <<mqtt_sender, command_queue, running, hm10_name, status_label,
    health_label, log_window, mqtt_loop, app_open, poweroff, alive, pc,
    frame, cmd, cb, ble_writes, published, submits, enqueued, notifs, events,
    inbox, raised, bt_calls, stop>>

\* The threads that call process_command.
Callers == {"gui", "mqtt"}

NoFrame == [payload |-> <<>>, sender |-> <<>>]
NoCmd == [payload |-> <<>>, id |-> 0, sender |-> <<>>]
NoCallback ==
  [pc |-> "none", data |-> <<>>, message |-> <<>>, subs0 |-> 0,
   writes0 |-> 0, seen |-> <<>>, pubs |-> <<>>]

NoStop == [writes |-> -1, submits |-> -1]

\* An input may still come.
MayCome == events < MaxEvents

(***************************************************************************)
(* Lines 256-273: the state when app.display() starts the event loop.      *)
(***************************************************************************)
Init ==
  /\ mqtt_sender = INITIAL_SENDER
  /\ command_queue = <<>>
  /\ running = TRUE
  /\ hm10_name = INITIAL_NAME
  /\ status_label = UpdateStatus(<<"Searching for Device...">>, "orange")
  /\ health_label = UpdateStatus(<<"Signal: --%">>, "gray")
  /\ log_window =
       AddToLog(AddToLog(<<>>, <<"[MQTT] Subscribed to: ", "shsf/+/commands">>),
                <<"[MQTT] Subscribed to: ", TOPIC_RSSI>>)
  /\ mqtt_loop = TRUE
  /\ app_open = TRUE
  /\ poweroff = FALSE
  /\ alive = TRUE
  /\ pc = [gui |-> "idle", mqtt |-> "idle", ble |-> "w44"]
  /\ frame = [gui |-> NoFrame, mqtt |-> NoFrame]
  /\ cmd = NoCmd
  /\ cb = NoCallback
  /\ ble_writes = <<>>
  /\ published = <<>>
  /\ submits = <<>>
  /\ enqueued = <<>>
  /\ notifs = <<>>
  /\ events = 0
  /\ inbox = <<>>
  /\ raised = <<>>
  /\ bt_calls = <<>>
  /\ stop = NoStop

(***************************************************************************)
(* Granularity.  A step of a thread is one access to the state the threads *)
(* share through the program's globals (mqtt_sender, command_queue,        *)
(* running), together with the updates of widgets and the calls of         *)
(* libraries next to it.                                                   *)
(***************************************************************************)

(***************************************************************************)
(* process_command (lines 100-113), run by the GUI thread (the button      *)
(* lambdas, lines 223-224) and by the MQTT thread (on_message, line 146).  *)
(***************************************************************************)
\* A process_command that leaves mqtt_sender as it was.
SenderNotAssigned(sender) == mqtt_sender

\* Line 107: the value process_command gives mqtt_sender.
SenderAssigned(sender) == sender

\* Line 113: command_queue.put(item).
QueuePut(q, item) == Append(q, item)

\* Lines 103-107 of the call process_command(payload, sender) by thread t.
P103(t, payload, sender) ==
  /\ log_window' =
       AddToLog(log_window, <<"[MQTT] Command '", payload, "' from ", sender>>)
  /\ mqtt_sender' = SenderAssigned(sender)
  /\ frame' = [frame EXCEPT ![t] = [payload |-> payload, sender |-> sender]]
  /\ submits' = Append(submits, [payload |-> payload, sender |-> sender])
  /\ pc' = [pc EXCEPT ![t] = "p110"]
  /\ events' = events + 1
  /\ UNCHANGED <<command_queue, running, hm10_name, status_label,
                 health_label, mqtt_loop, app_open, poweroff, alive, cmd, cb,
                 ble_writes, published, enqueued, notifs, raised, bt_calls,
                 stop>>

\* Lines 110-113, and the return to the caller.
P110(t) ==
  /\ alive /\ pc[t] = "p110"
  /\ status_label' =
       UpdateStatus(<<"Last Cmd: ", frame[t].payload, " (from ",
                      frame[t].sender, ")">>, "blue")
  /\ command_queue' =
       QueuePut(command_queue,
                [payload |-> frame[t].payload, id |-> Len(enqueued) + 1,
                 sender |-> frame[t].sender])
  /\ enqueued' = Append(enqueued, frame[t])
  /\ pc' = [pc EXCEPT ![t] = "idle"]
  /\ frame' = [frame EXCEPT ![t] = NoFrame]
  /\ UNCHANGED <<mqtt_sender, running, hm10_name, health_label, log_window,
                 mqtt_loop, app_open, poweroff, alive, cmd, cb, ble_writes,
                 published, submits, notifs, events, inbox, raised,
                 bt_calls, stop>>

(***************************************************************************)
(* The GUI thread: the event loop of app.display() (line 273).             *)
(***************************************************************************)
\* Lines 223-224: a command button is pressed.
GuiButton ==
  /\ alive /\ app_open /\ pc.gui = "idle"
  /\ MayCome
  /\ \E c \in ButtonCommands : P103("gui", c, GUI_SENDER)
  /\ UNCHANGED inbox

\* Lines 92-97: send_heartbeat, from the timer of line 272.
SendHeartbeat ==
  /\ alive /\ app_open /\ pc.gui = "idle"
  /\ MayCome
  /\ published' = Append(published, [topic |-> TOPIC_HEARTBEAT, payload |-> NOW])
  /\ events' = events + 1
  /\ UNCHANGED <<mqtt_sender, command_queue, running, hm10_name, status_label,
                 health_label, log_window, mqtt_loop, app_open, poweroff,
                 alive, pc, frame, cmd, cb, ble_writes, submits, enqueued,
                 notifs, inbox, raised,
                 bt_calls, stop>>

\* A clear that leaves the lines in the window.
ClearKeeps(log) == log

\* Line 195: log_window.clear().
Clear(log) == <<>>

\* Lines 194-196: clear_log, from the button of line 254.
ClearLog ==
  /\ alive /\ app_open /\ pc.gui = "idle"
  /\ MayCome
  /\ log_window' = AddToLog(Clear(log_window), <<"Log cleared.">>)
  /\ events' = events + 1
  /\ UNCHANGED <<mqtt_sender, command_queue, running, hm10_name, status_label,
                 health_label, mqtt_loop, app_open, poweroff, alive, pc,
                 frame, cmd, cb, ble_writes, published, submits, enqueued,
                 notifs, inbox, raised,
                 bt_calls, stop>>

\* What the history keeps of the moment running is first cleared.
Stopped ==
  IF stop = NoStop
  THEN [writes |-> Len(ble_writes), submits |-> Len(submits)]
  ELSE stop

\* Lines 152-157: the exit button (line 230) or SIGINT (lines 175-178)
\* calls shutdown_system; the signal is taken between two handlers of the
\* event loop.
ShutdownSystem ==
  /\ alive /\ app_open /\ pc.gui = "idle"
  /\ MayCome
  /\ events' = events + 1
  /\ log_window' = AddToLog(log_window, <<"\n[!] Shutting down system...">>)
  /\ running' = FALSE
  /\ stop' = Stopped
  /\ pc' = [pc EXCEPT !.gui = "s158"]
  /\ UNCHANGED <<mqtt_sender, command_queue, hm10_name, status_label,
                 health_label, mqtt_loop, app_open, poweroff, alive, frame,
                 cmd, cb, ble_writes, published, submits, enqueued, notifs,
                 inbox, raised, bt_calls>>

\* Lines 158-159: loop_stop() joins the MQTT thread, which ends after the
\* callback it is in; then the window is destroyed.
S158 ==
  /\ alive /\ pc.gui = "s158"
  /\ pc.mqtt = "idle"
  /\ mqtt_loop' = FALSE
  /\ app_open' = FALSE
  /\ pc' = [pc EXCEPT !.gui = "m275"]
  /\ UNCHANGED <<mqtt_sender, command_queue, running, hm10_name, status_label,
                 health_label, log_window, poweroff, alive, frame, cmd, cb,
                 ble_writes, published, submits, enqueued, notifs, events, inbox, raised,
                 bt_calls, stop>>

\* Lines 275-276: app.display() has returned; sys.exit(0) ends the process
\* and with it the daemon thread of line 269.
M275 ==
  /\ alive /\ pc.gui = "m275"
  /\ alive' = FALSE
  /\ UNCHANGED <<mqtt_sender, command_queue, running, hm10_name, status_label,
                 health_label, log_window, mqtt_loop, app_open, poweroff, pc,
                 frame, cmd, cb, ble_writes, published, submits, enqueued,
                 notifs, events, inbox, raised,
                 bt_calls, stop>>

\* Lines 175-176, once app.display() has returned and before sys.exit(0):
\* SIGINT calls shutdown_system a second time.  The window is destroyed, and
\* a call on a destroyed Tk widget raises TclError: log_window.append (line
\* 188) raises in the add_to_log of line 156, before line 157.  The
\* exception leaves the signal handler into the try of line 257; the
\* handler of line 278 calls add_to_log (line 280), which raises again, and
\* the process ends with the traceback.
SignalHandler ==
  /\ alive /\ pc.gui = "m275"
  /\ MayCome
  /\ events' = events + 1
  /\ raised' =
       raised \o << [exception |-> "TclError", line |-> 156],
                    [exception |-> "TclError", line |-> 280] >>
  /\ alive' = FALSE
  /\ UNCHANGED <<mqtt_sender, command_queue, running, hm10_name, status_label,
                 health_label, log_window, mqtt_loop, app_open, poweroff, pc,
                 frame, cmd, cb, ble_writes, published, submits, enqueued,
                 notifs, inbox, bt_calls, stop>>

\* Lines 163-169: pi_shutdown asks; on "no" nothing happens.  Once the host
\* is shutting down the button is not pressed again.
PiShutdown ==
  /\ alive /\ app_open /\ pc.gui = "idle"
  /\ ~poweroff
  /\ MayCome
  /\ \E yes \in BOOLEAN :
       IF yes
       THEN /\ log_window' = AddToLog(log_window, <<"\n[!] Shutting down Pi...">>)
            /\ running' = FALSE
            /\ stop' = Stopped
            /\ pc' = [pc EXCEPT !.gui = "h170"]
            /\ events' = events + 1
       ELSE UNCHANGED <<log_window, running, stop, pc, events>>
  /\ UNCHANGED <<mqtt_sender, command_queue, hm10_name, status_label,
                 health_label, mqtt_loop, app_open, poweroff, alive, frame,
                 cmd, cb, ble_writes, published, submits, enqueued, notifs,
                 inbox, raised, bt_calls>>

\* Lines 170-172: loop_stop(), then the host is told to shut down and the
\* handler returns.
H170 ==
  /\ alive /\ pc.gui = "h170"
  /\ pc.mqtt = "idle"
  /\ mqtt_loop' = FALSE
  /\ poweroff' = TRUE
  /\ pc' = [pc EXCEPT !.gui = "idle"]
  /\ UNCHANGED <<mqtt_sender, command_queue, running, hm10_name, status_label,
                 health_label, log_window, app_open, alive, frame, cmd, cb,
                 ble_writes, published, submits, enqueued, notifs, events, inbox, raised,
                 bt_calls, stop>>

\* The host, shutting down, ends the process.
PowerOff ==
  /\ alive /\ poweroff
  /\ alive' = FALSE
  /\ UNCHANGED <<mqtt_sender, command_queue, running, hm10_name, status_label,
                 health_label, log_window, mqtt_loop, app_open, poweroff, pc,
                 frame, cmd, cb, ble_writes, published, submits, enqueued,
                 notifs, events, inbox, raised,
                 bt_calls, stop>>

(***************************************************************************)
(* The MQTT thread: on_message (lines 116-146).                            *)
(***************************************************************************)
\* An on_message that takes no topic for the telemetry topic.
IsTelemetryNever(topic) == FALSE

\* Line 120: whether the topic is the telemetry topic.
IsTelemetry(topic) == topic = TOPIC_RSSI

\* Lines 116-146: on_message, called with the topic and the decoded payload
\* of a message.  The bare except of line 137 swallows the ValueError of
\* int().
OnMessage(topic, payload) ==
  /\ alive /\ mqtt_loop /\ pc.mqtt = "idle"
  /\ inbox' = Append(inbox, [topic |-> topic, payload |-> payload])
  /\ IF IsTelemetry(topic)
     THEN /\ IF IntOk(payload)
             THEN LET quality == Quality(IntOf(payload))
                  IN /\ health_label' =
                          UpdateStatus(<<"Giebel Throttle WiFi Signal: ", quality, "%">>,
                                       HealthColor(quality))
                     /\ log_window' =
                          IF quality <= 75
                          THEN AddToLog(log_window,
                                        <<"[WIFI] Giebel Throttle signal is weak!">>)
                          ELSE log_window
             ELSE UNCHANGED <<health_label, log_window>>
          /\ events' = events + 1
          /\ UNCHANGED <<mqtt_sender, command_queue, running, hm10_name,
                         status_label, mqtt_loop, app_open, poweroff, alive, pc,
                         frame, cmd, cb, ble_writes, published, submits,
                         enqueued, notifs, raised, bt_calls, stop>>
     ELSE P103("mqtt", payload, SenderOf(topic))

\* A message on the telemetry topic arrives.
OnRssi ==
  /\ MayCome
  /\ \E payload \in RssiPayloads : OnMessage(TOPIC_RSSI, payload)

\* A message on a command topic arrives.
OnCommand ==
  /\ MayCome
  /\ \E topic \in CommandTopics, payload \in CommandPayloads :
       OnMessage(topic, payload)

(***************************************************************************)
(* The BLE worker thread: ble_worker (lines 40-89).                        *)
(***************************************************************************)
\* The lines logged by lines 44-55.
LOG_INIT == <<"[BLE] Initializing ...">>
LOG_INIT_FAILED == <<"[BLE] Failed to initialize.">>
LOG_CONNECT == <<"[BLE] Connecting to HM-10 (Node ", "HM10_NODE", ")...">>
LOG_CONNECT_FAILED == <<"[BLE] Failed to connect.">>

\* A worker that takes the characteristic for granted.
CticAssumed(ctic) == TRUE

\* Line 57: whether btfpy.Ctic_ok found the characteristic.
CticFound(ctic) == ctic = 1

\* Lines 43-73 and 87-89: btfpy.Init_blue returns 1 when the stack is up,
\* btfpy.Connect_node 0 when it fails, btfpy.Ctic_ok 1 when the
\* characteristic exists; then the name is read, the status set and
\* ble_callback registered.
W44 ==
  /\ alive /\ pc.ble = "w44"
  /\ \E init \in {0, 1}, conn \in {0, 1}, ctic \in {0, 1} :
       IF init # 1
       THEN /\ bt_calls' = <<init>>
            /\ log_window' = AddToLog(AddToLog(log_window, LOG_INIT), LOG_INIT_FAILED)
            /\ pc' = [pc EXCEPT !.ble = "aborted"]
            /\ UNCHANGED <<hm10_name, status_label>>
       ELSE IF conn = 0
       THEN /\ bt_calls' = <<init, conn>>
            /\ log_window' =
                 AddToLog(AddToLog(AddToLog(log_window, LOG_INIT), LOG_CONNECT),
                          LOG_CONNECT_FAILED)
            /\ pc' = [pc EXCEPT !.ble = "aborted"]
            /\ UNCHANGED <<hm10_name, status_label>>
       ELSE IF CticFound(ctic)
       THEN /\ bt_calls' = <<init, conn, ctic>>
            /\ hm10_name' = Strip(DEVICE_NAME)
            /\ status_label' =
                 UpdateStatus(<<hm10_name', " Status: Connected">>, "green")
            /\ log_window' =
                 AddToLog(AddToLog(AddToLog(log_window, LOG_INIT), LOG_CONNECT),
                          <<"[BLE] Connected to LE server: ", hm10_name'>>)
            /\ pc' = [pc EXCEPT !.ble = "w75"]
       ELSE /\ bt_calls' = <<init, conn, ctic>>
            /\ log_window' =
                 AddToLog(AddToLog(AddToLog(log_window, LOG_INIT), LOG_CONNECT),
                          <<"[BLE] Data characteristic FFE1 not found.">>)
            /\ pc' = [pc EXCEPT !.ble = "aborted"]
            /\ UNCHANGED <<hm10_name, status_label>>
  /\ UNCHANGED <<mqtt_sender, command_queue, running, health_label, mqtt_loop,
                 app_open, poweroff, alive, frame, cmd, cb, ble_writes,
                 published, submits, enqueued, notifs, events, inbox, raised,
                 stop>>

\* A loop that does not poll the flag.
LoopForever == TRUE

\* Line 75: the condition of the consumer loop.
LoopCondition == running

\* Line 75: the loop polls the flag.
W75 ==
  /\ alive /\ pc.ble = "w75"
  /\ pc' = [pc EXCEPT !.ble = IF LoopCondition THEN "w78" ELSE "done"]
  /\ UNCHANGED <<mqtt_sender, command_queue, running, hm10_name, status_label,
                 health_label, log_window, mqtt_loop, app_open, poweroff,
                 alive, frame, cmd, cb, ble_writes, published, submits,
                 enqueued, notifs, events, inbox, raised,
                 bt_calls, stop>>

\* A queue that hands out its newest item.
QueueGetLast(q) == q[Len(q)]

\* A queue whose get leaves the item queued.
QueueRestAll(q) == q

\* Line 78: the item command_queue.get returns, and what it leaves queued.
QueueGet(q) == Head(q)
QueueRest(q) == Tail(q)

\* A write without the terminator.
WriteDataBare(c) == c

\* Line 81: the bytes written for a command.
WriteData(c) == c \o <<CR>>

\* Lines 78 and 84: get(timeout=0.1) returns the next item, or raises
\* queue.Empty when none came.
W78 ==
  /\ alive /\ pc.ble = "w78"
  /\ IF command_queue # <<>>
     THEN /\ cmd' = QueueGet(command_queue)
          /\ command_queue' = QueueRest(command_queue)
          /\ pc' = [pc EXCEPT !.ble = "w79"]
     ELSE /\ pc' = [pc EXCEPT !.ble = "w86"]
          /\ UNCHANGED <<cmd, command_queue>>
  /\ UNCHANGED <<mqtt_sender, running, hm10_name, status_label, health_label,
                 log_window, mqtt_loop, app_open, poweroff, alive, frame, cb,
                 ble_writes, published, submits, enqueued, notifs, events, inbox, raised,
                 bt_calls, stop>>

\* Lines 79-81: the command is logged and written.
W79 ==
  /\ alive /\ pc.ble = "w79"
  /\ log_window' = AddToLog(log_window, <<"[BLE] Sending: ", cmd.payload>>)
  /\ ble_writes' =
       Append(ble_writes,
              [data |-> WriteData(cmd.payload), id |-> cmd.id,
               sender |-> cmd.sender])
  /\ pc' = [pc EXCEPT !.ble = "w82"]
  /\ UNCHANGED <<mqtt_sender, command_queue, running, hm10_name, status_label,
                 health_label, mqtt_loop, app_open, poweroff, alive, frame,
                 cmd, cb, published, submits, enqueued, notifs, events, inbox, raised,
                 bt_calls, stop>>

\* A stack that calls back during any call of the worker.
PumpingAnywhere == pc.ble \in {"w78", "w79", "w82", "w86"}

\* Lines 82 and 86: the worker is inside btfpy.Read_notify(100) or
\* btfpy.Sleep_ms(50), the calls during which btfpy reads the packets that
\* came and calls the callback registered at line 73.
Pumping == pc.ble \in {"w82", "w86"}

\* Lines 82-83 and 86: btfpy.Read_notify(100) or btfpy.Sleep_ms(50) returns,
\* and the loop goes round.
PumpReturn ==
  /\ alive /\ Pumping /\ cb.pc = "none"
  /\ pc' = [pc EXCEPT !.ble = "w75"]
  /\ UNCHANGED <<mqtt_sender, command_queue, running, hm10_name, status_label,
                 health_label, log_window, mqtt_loop, app_open, poweroff,
                 alive, frame, cmd, cb, ble_writes, published, submits,
                 enqueued, notifs, events, inbox, raised,
                 bt_calls, stop>>

(***************************************************************************)
(* ble_callback (lines 27-37), called by btfpy inside Read_notify or       *)
(* Sleep_ms on the worker thread, once Notify_ctic (line 73) registered it.*)
(***************************************************************************)
\* Line 29: the text of a notification.
Message(data) == Strip(Decode(data))

\* A callback that forwards every response.
ForwardAlways(sender) == TRUE

\* Line 34: whether the response is forwarded by MQTT.
ForwardByMqtt(sender) == sender # GUI_SENDER

\* Lines 36-37: the message published for a response.
Response(sender, message) ==
  [topic |-> ResponseTopic(sender), payload |-> message]

\* What the history keeps of a call of ble_callback when it returns.
Returned(c) ==
  [data |-> c.data, message |-> c.message, subs0 |-> c.subs0,
   subs1 |-> Len(submits), writes0 |-> c.writes0, seen |-> c.seen,
   status |-> status_label, pubs |-> c.pubs]

\* Lines 27-34: a notification arrives while the worker pumps the stack; it
\* is logged, and mqtt_sender read.
C29 ==
  /\ alive /\ Pumping /\ cb.pc = "none"
  /\ MayCome
  /\ \E data \in NotifyData :
       LET c == [pc |-> "c36", data |-> data, message |-> Message(data),
                 subs0 |-> Len(submits), writes0 |-> Len(ble_writes),
                 seen |-> mqtt_sender, pubs |-> <<>>]
       IN /\ log_window' = AddToLog(log_window, <<"[BLE] Received: ", c.message>>)
          /\ IF ForwardByMqtt(mqtt_sender)
             THEN cb' = c /\ UNCHANGED notifs
             ELSE cb' = NoCallback /\ notifs' = Append(notifs, Returned(c))
  /\ events' = events + 1
  /\ UNCHANGED <<mqtt_sender, command_queue, running, hm10_name, status_label,
                 health_label, mqtt_loop, app_open, poweroff, alive, pc,
                 frame, cmd, ble_writes, published, submits, enqueued, inbox, raised,
                 bt_calls, stop>>

\* Lines 36-37: mqtt_sender is read again, and the response published.
C36 ==
  /\ alive /\ cb.pc = "c36"
  /\ LET m == Response(mqtt_sender, cb.message)
     IN /\ published' = Append(published, m)
        /\ notifs' = Append(notifs, Returned([cb EXCEPT !.pubs = Append(@, m)]))
  /\ cb' = NoCallback
  /\ UNCHANGED <<mqtt_sender, command_queue, running, hm10_name, status_label,
                 health_label, log_window, mqtt_loop, app_open, poweroff,
                 alive, pc, frame, cmd, ble_writes, submits, enqueued, events, inbox, raised,
                 bt_calls, stop>>

(***************************************************************************)
(* The program.                                                            *)
(***************************************************************************)
GuiNext ==
  \/ GuiButton \/ SendHeartbeat \/ ClearLog
  \/ ShutdownSystem \/ S158 \/ M275 \/ SignalHandler
  \/ PiShutdown \/ H170

MqttNext == OnRssi \/ OnCommand

CallNext == \E t \in Callers : P110(t)

WorkerNext == W44 \/ W75 \/ W78 \/ W79 \/ PumpReturn \/ C29 \/ C36

Next == GuiNext \/ MqttNext \/ CallNext \/ WorkerNext \/ PowerOff

Spec == Init /\ [][Next]_vars

\* The worker thread is scheduled as long as the process runs.
FairSpec == Spec /\ WF_vars(WorkerNext)

(***************************************************************************)
(* on_message by itself: the MQTT thread alone, given any topic and        *)
(* payload.                                                                *)
(***************************************************************************)
OnMessageAlone ==
  /\ Len(inbox) < MaxMessages
  /\ \E topic \in AllTopics :
       \E payload \in PayloadsOn(topic) : OnMessage(topic, payload)

MessageNext == OnMessageAlone \/ P110("mqtt")

MessageSpec == Init /\ [][MessageNext]_vars

(***************************************************************************)
(* Properties.                                                             *)
(*                                                                         *)
(* A call of process_command is a submit; it takes effect on the routing   *)
(* when it assigns mqtt_sender (line 107), and submits lists the calls in  *)
(* that order.  A notification is handled between two submits when no      *)
(* submit takes effect between the call of ble_callback and its return.    *)
(***************************************************************************)
Notifs == {notifs[i] : i \in 1..Len(notifs)}

\* No submit took effect while the callback ran.
Quiet(n) == n.subs0 = n.subs1

\* The texts of the examples.
TEXT_OK == <<"O", "K">>
TEXT_DONE == <<"D", "O", "N", "E">>
ALICE == <<"a", "l", "i", "c", "e">>
TOPIC_ALICE_RESPONSES ==
  <<"s","h","s","f","/","a","l","i","c","e","/","r","e","s","p","o","n","s","e","s">>

C2_SenderOfLastWrite ==
  \A n \in Notifs :
    n.writes0 > 0 => n.seen = ble_writes[n.writes0].sender

\* C3: a submit leaves mqtt_sender as it is, and the worker's dequeue sets
\* it to the sender of the command dequeued.
C3_SetAtDequeue ==
  [][ /\ Len(submits') > Len(submits) => mqtt_sender' = mqtt_sender
      /\ cmd' # cmd => mqtt_sender' = cmd'.sender ]_vars

\* C4: the commands are written in the order they were enqueued: the i-th
\* write is the i-th command enqueued.
C4_Fifo ==
  /\ Len(ble_writes) <= Len(enqueued)
  /\ \A i \in 1..Len(ble_writes) :
       /\ ble_writes[i].id = i
       /\ ble_writes[i].sender = enqueued[i].sender

\* C4, its case: two commands of different senders were enqueued, and both
\* written.
C4_Witness ==
  /\ Len(ble_writes) = 2
  /\ enqueued[1].sender # enqueued[2].sender

\* C5, as claimed: once the worker has ended, every command enqueued has
\* been written.
C5_ExactlyOnce ==
  (pc.ble \in {"done", "aborted"} \/ ~alive) =>
    Len(ble_writes) = Len(enqueued)

\* C5, amended: every command is written at most once: the commands
\* enqueued are those written, once each, then the one the worker has
\* dequeued and not yet written, then those still queued.
C5_AtMostOnce ==
  [i \in 1..Len(ble_writes) |-> ble_writes[i].id]
    \o (IF pc.ble = "w79" THEN <<cmd.id>> ELSE <<>>)
    \o [i \in 1..Len(command_queue) |-> command_queue[i].id]
  = [i \in 1..Len(enqueued) |-> i]

\* C5, its case: one command was written and a later one is queued for
\* good, the worker having left its loop.
C5_Witness ==
  /\ Len(ble_writes) = 1
  /\ Len(command_queue) = 1
  /\ pc.ble = "done"

\* C6: a notification handled when no command was ever submitted is not
\* published.
C6_NoPublishBeforeSubmit ==
  \A n \in Notifs : n.subs1 = 0 => n.pubs = <<>>

\* C7: a notification handled after a submit of "hub" and before the next
\* submit is not published.
C7_LocalNotPublished ==
  \A n \in Notifs :
    (n.subs0 > 0 /\ Quiet(n) /\ submits[n.subs0].sender = GUI_SENDER) =>
      n.pubs = <<>>

\* C7, its case: "ba o" from the button was submitted, then "DONE"
\* notified, and nothing was published.
C7_Witness ==
  /\ \E n \in Notifs :
       /\ n.subs0 > 0 /\ Quiet(n)
       /\ submits[n.subs0] = [payload |-> CMD_BLOCKS_ON, sender |-> GUI_SENDER]
       /\ n.message = TEXT_DONE
       /\ n.pubs = <<>>
  /\ published = <<>>

\* C8, as claimed: after a notification handled with mqtt_sender = "hub",
\* the status label shows its text.
C8_StatusShowsText ==
  \A n \in Notifs : n.seen = GUI_SENDER => n.status.value = <<n.message>>

\* C8, amended: a notification handled with mqtt_sender = "hub" leaves the
\* status label as it is and adds "[BLE] Received: <text>" as the last line
\* of the log window.
C8_LoggedNotDisplayed ==
  [][ (cb.pc = "none" /\ Len(notifs') > Len(notifs)
         /\ mqtt_sender = GUI_SENDER) =>
        /\ status_label' = status_label
        /\ published' = published
        /\ log_window' =
             log_window \o
               << <<"[", NOW, "] ",
                    <<"[BLE] Received: ", notifs'[Len(notifs')].message>> >> >>
    ]_vars

\* C8, its case: "DONE" was notified after the button "All Blocks ON"; the
\* status label shows the command and the log ends with the response.
C8_Witness ==
  /\ notifs # <<>>
  /\ notifs[Len(notifs)].seen = GUI_SENDER
  /\ notifs[Len(notifs)].message = TEXT_DONE
  /\ status_label.value =
       <<"Last Cmd: ", CMD_BLOCKS_ON, " (from ", GUI_SENDER, ")">>
  /\ log_window[Len(log_window)] =
       <<"[", NOW, "] ", <<"[BLE] Received: ", TEXT_DONE>> >>

\* C9: every write is the command as it was submitted, with one carriage
\* return appended.
C9_WriteIsCommandCR ==
  \A i \in 1..Len(ble_writes) :
    LET w == ble_writes[i]
    IN /\ w.id \in 1..Len(enqueued)
       /\ w.data = enqueued[w.id].payload \o <<"\r">>
       /\ \E j \in 1..Len(submits) : submits[j] = enqueued[w.id]

\* C9, its case: "ba o" was submitted and "ba o\r" written.
C9_Witness ==
  \E i \in 1..Len(ble_writes) :
    /\ enqueued[ble_writes[i].id].payload = CMD_BLOCKS_ON
    /\ ble_writes[i].data = <<"b", "a", " ", "o", "\r">>

\* The consumer loop has ended: it was left, it was never entered, or the
\* process is gone.
LoopEnded == pc.ble \in {"done", "aborted"} \/ ~alive

\* C10: once running is cleared the consumer loop ends; its next poll of
\* the flag leaves the loop, and a loop that was left is not entered again.
C10_LoopExits ==
  /\ (~running) ~> LoopEnded
  /\ [][(pc.ble = "w75" /\ ~running /\ pc'.ble # "w75") => pc'.ble = "done"]_vars
  /\ [][pc.ble = "done" => pc'.ble = "done"]_vars
  /\ [][~running => ~running']_vars

\* C10, its case: shutdown_system cleared the flag, and the worker left its
\* loop at the poll, a command still queued.
C10_Witness ==
  /\ ~running /\ ~app_open /\ alive
  /\ pc.ble = "done"
  /\ command_queue # <<>>

\* C11: no invocation of shutdown_system raises: a second one, like the
\* first, returns and leaves running cleared, the MQTT loop stopped and the
\* window closed.
C11_ShutdownTwiceQuiet ==
  /\ \A i \in 1..Len(raised) : raised[i].line \notin 152..159
  /\ pc.gui = "m275" => (~running /\ ~mqtt_loop /\ ~app_open)

\* An initialization call of ble_worker failed.
BtFailed ==
  /\ bt_calls # <<>>
  /\ \/ bt_calls[1] # 1
     \/ Len(bt_calls) >= 2 /\ bt_calls[2] = 0
     \/ Len(bt_calls) >= 3 /\ bt_calls[3] # 1

\* The worker ended in initialization: no callback ever ran, nothing was
\* written, the name of the device was not read.
WorkerAborted ==
  /\ pc.ble = "aborted"
  /\ ble_writes = <<>>
  /\ notifs = <<>> /\ cb = NoCallback
  /\ hm10_name = <<"Unknown Device">>

\* The rest of the program goes on: the flag is set unless a shutdown
\* cleared it, and the buttons, the heartbeat and the MQTT commands are
\* taken as before.
RestGoesOn ==
  /\ running \/ stop # NoStop
  /\ (alive /\ app_open /\ pc.gui = "idle" /\ events < MaxEvents) =>
       (ENABLED GuiButton /\ ENABLED SendHeartbeat)
  /\ (alive /\ mqtt_loop /\ pc.mqtt = "idle" /\ events < MaxEvents) =>
       ENABLED OnCommand

\* C12, as claimed: after a failed initialization only the worker has
\* ended, and the status label keeps showing "Searching for Device...".
C12_StatusStaysSearching ==
  BtFailed =>
    /\ WorkerAborted
    /\ RestGoesOn
    /\ status_label =
         [value |-> <<"Searching for Device...">>, text_color |-> "orange"]

\* C12, amended: after a failed initialization only the worker has ended;
\* the status label never shows "Connected": it shows "Searching for
\* Device..." until a command is submitted, and then the last command.
C12_OnlyWorkerAborts ==
  /\ [](BtFailed =>
          /\ WorkerAborted
          /\ RestGoesOn
          /\ \/ status_label =
                  [value |-> <<"Searching for Device...">>,
                   text_color |-> "orange"]
             \/ /\ submits # <<>>
                /\ status_label.value[1] = "Last Cmd: "
                /\ status_label.text_color = "blue")
  /\ [][(pc.ble = "w44" /\ pc'.ble = "aborted") =>
          /\ BtFailed'
          /\ <<running, alive, mqtt_loop, app_open, status_label, pc.gui,
               pc.mqtt, command_queue, mqtt_sender>>'
             = <<running, alive, mqtt_loop, app_open, status_label, pc.gui,
                 pc.mqtt, command_queue, mqtt_sender>>]_vars

\* C12, its case: the characteristic was not found; later a button was
\* pressed, its command queued and shown, and a heartbeat published.
C12_Witness ==
  /\ bt_calls = <<1, 1, 0>>
  /\ pc.ble = "aborted" /\ running /\ alive
  /\ command_queue # <<>>
  /\ status_label.value = <<"Last Cmd: ", CMD_HORN, " (from ", GUI_SENDER, ")">>
  /\ \E i \in 1..Len(published) : published[i].topic = TOPIC_HEARTBEAT

\* The telemetry messages delivered so far whose payload int() accepts, by
\* their place in inbox, and their dBm.
Readings ==
  {i \in 1..Len(inbox) : inbox[i].topic = TOPIC_RSSI /\ IntOk(inbox[i].payload)}
Dbm(i) == IntOf(inbox[i].payload)

\* max(0, min(100, 2*(dbm+100))), case by case.
Clamped(dbm) ==
  IF dbm <= -100 THEN 0 ELSE IF dbm >= -50 THEN 100 ELSE 2 * dbm + 200

\* C13: the quality computed for a dBm value is max(0, min(100,
\* 2*(dbm+100))): between 0 and 100, monotonic in dbm, 100 at -50, 0 at
\* -100, 50 at -75; and it is the quality the signal indicator shows.
C13_QualityClamped ==
  /\ \A i \in Readings :
       /\ Quality(Dbm(i)) \in 0..100
       /\ Quality(Dbm(i)) = Clamped(Dbm(i))
       /\ inbox[i].payload = <<"-", "5", "0">> => Quality(Dbm(i)) = 100
       /\ inbox[i].payload = <<"-", "1", "0", "0">> => Quality(Dbm(i)) = 0
       /\ inbox[i].payload = <<"-", "7", "5">> => Quality(Dbm(i)) = 50
  /\ \A i, j \in Readings :
       Dbm(i) <= Dbm(j) => Quality(Dbm(i)) <= Quality(Dbm(j))
  /\ Readings # {} =>
       LET last == CHOOSE i \in Readings : \A j \in Readings : j <= i
       IN health_label.value =
            <<"Giebel Throttle WiFi Signal: ", Clamped(Dbm(last)), "%">>
  /\ Readings = {} => health_label.value = <<"Signal: --%">>

\* C13, its case: "-100" came, then "-75"; the indicator shows 50%.
C13_Witness ==
  /\ Len(inbox) = 2
  /\ inbox[1] = [topic |-> TOPIC_RSSI, payload |-> <<"-", "1", "0", "0">>]
  /\ inbox[2] = [topic |-> TOPIC_RSSI, payload |-> <<"-", "7", "5">>]
  /\ health_label =
       [value |-> <<"Giebel Throttle WiFi Signal: ", 50, "%">>,
        text_color |-> "orange"]

\* The second segment of a topic, between its first "/" and the next, and
\* "unknown" for a topic without "/".
SecondSegment(topic) ==
  IF \A k \in 1..Len(topic) : topic[k] # "/"
  THEN <<"u", "n", "k", "n", "o", "w", "n">>
  ELSE LET first == CHOOSE k \in 1..Len(topic) :
                      topic[k] = "/" /\ \A j \in 1..(k - 1) : topic[j] # "/"
           after == {k \in (first + 1)..Len(topic) : topic[k] = "/"}
           next == IF after = {} THEN Len(topic) + 1
                   ELSE CHOOSE k \in after : \A j \in after : k <= j
       IN SubSeq(topic, first + 1, next - 1)

\* The messages delivered so far on another topic than the telemetry topic.
CommandMessages == SelectSeq(inbox, LAMBDA m : m.topic # TOPIC_RSSI)

\* C14: on_message, alone, submits every message on another topic than the
\* telemetry topic, with the second segment of its topic as the sender:
\* "alice" for shsf/alice/commands, "unknown" for a topic of one segment.
C14_SenderIsSecondSegment ==
  /\ Len(submits) = Len(CommandMessages)
  /\ \A i \in 1..Len(submits) :
       /\ submits[i].payload = CommandMessages[i].payload
       /\ submits[i].sender = SecondSegment(CommandMessages[i].topic)
       /\ CommandMessages[i].topic = TOPIC_ALICE => submits[i].sender = ALICE
       /\ CommandMessages[i].topic = <<"s", "h", "s", "f">> =>
            submits[i].sender = <<"u", "n", "k", "n", "o", "w", "n">>
  /\ \A i \in 1..Len(enqueued) : enqueued[i] = submits[i]

\* C14, its case: a message on shsf/alice/commands and one on the topic
\* "shsf" came, and both were queued, from "alice" and from "unknown".
C14_Witness ==
  /\ Len(inbox) = 2
  /\ inbox[1].topic = TOPIC_ALICE
  /\ inbox[2].topic = <<"s", "h", "s", "f">>
  /\ Len(command_queue) = 2
  /\ command_queue[1].sender = ALICE
  /\ command_queue[2].sender = <<"u", "n", "k", "n", "o", "w", "n">>
  /\ mqtt_sender = <<"u", "n", "k", "n", "o", "w", "n">>

\* C15: clear_log, which clears the log window and adds one entry, leaves
\* exactly one entry in it, "Log cleared.", whatever it held.
C15_ClearThenOneEntry ==
  [][ClearLog =>
        /\ Len(log_window') = 1
        /\ log_window'[1] = <<"[", NOW, "] ", <<"Log cleared.">> >>]_vars

\* C15, its case: the log held the lines of the start and of a command
\* queued, written and answered; after the clear it holds one entry.
C15_Witness ==
  /\ log_window = << <<"[", NOW, "] ", <<"Log cleared.">> >> >>
  /\ ble_writes # <<>>
  /\ notifs # <<>>

\* C16: the callback runs, and returns, only while the worker is inside
\* Read_notify or Sleep_ms, and the worker does nothing else meanwhile; the
\* dequeue and the write are steps of the worker at lines 78 and 81, with no
\* callback in progress.
C16_TransportOwnedByWorker ==
  /\ [](cb.pc # "none" => pc.ble \in {"w82", "w86"})
  /\ [][(cb' # cb \/ notifs' # notifs) =>
          (pc.ble \in {"w82", "w86"} /\ pc' = pc
             /\ ble_writes' = ble_writes /\ command_queue' = command_queue)]_vars
  /\ [][ble_writes' # ble_writes =>
          (pc.ble = "w79" /\ pc'.ble = "w82" /\ cb.pc = "none"
             /\ pc'.gui = pc.gui /\ pc'.mqtt = pc.mqtt)]_vars
  /\ [][Len(command_queue') < Len(command_queue) =>
          (pc.ble = "w78" /\ pc'.ble = "w79" /\ cb.pc = "none"
             /\ pc'.gui = pc.gui /\ pc'.mqtt = pc.mqtt)]_vars

\* C16, its case: a notification was handled while the worker idled in
\* Sleep_ms, and another is being handled inside the Read_notify that
\* follows a write.
C16_Witness ==
  /\ \E n \in Notifs : n.writes0 = 0
  /\ cb.pc = "c36" /\ pc.ble = "w82"
  /\ cb.writes0 = 1

\* C17: the widgets change only in steps of the GUI thread: no step of the
\* worker, of the notification callback or of on_message changes the status
\* label, the log window or the signal indicator.
C17_WidgetsOnlyByGuiThread ==
  [][(\/ pc'.ble # pc.ble
      \/ cb' # cb \/ notifs' # notifs
      \/ inbox' # inbox
      \/ pc.mqtt = "p110" /\ pc'.mqtt = "idle") =>
       <<status_label, log_window, health_label>>'
         = <<status_label, log_window, health_label>>]_vars

\* C18: a message on the telemetry topic changes neither the command queue
\* nor mqtt_sender nor running, and submits nothing; when int() rejects its
\* payload it changes nothing at all.
C18_TelemetryStaysOut ==
  [][(Len(inbox') > Len(inbox)
        /\ inbox'[Len(inbox')].topic
             = <<"s","h","s","f","/","g","i","e","b","e","l","_","t","h","r","o","t","t","l","e","/","r","s","s","i">>) =>
       /\ <<command_queue, mqtt_sender, running, submits, enqueued, pc, frame,
            status_label, published>>'
          = <<command_queue, mqtt_sender, running, submits, enqueued, pc,
              frame, status_label, published>>
       /\ ~IntOk(inbox'[Len(inbox')].payload) =>
            <<mqtt_sender, command_queue, running, hm10_name, status_label,
              health_label, log_window, mqtt_loop, app_open, poweroff, alive,
              pc, frame, cmd, cb, ble_writes, published, submits, enqueued,
              notifs>>'
            = <<mqtt_sender, command_queue, running, hm10_name, status_label,
                health_label, log_window, mqtt_loop, app_open, poweroff,
                alive, pc, frame, cmd, cb, ble_writes, published, submits,
                enqueued, notifs>>]_vars

\* C18, its case: a command from alice is queued, and then "low" came on
\* the telemetry topic: the queue, the sender and the indicator are as they
\* were.
C18_Witness ==
  /\ Len(inbox) = 2
  /\ inbox[1].topic = TOPIC_ALICE
  /\ inbox[2] = [topic |-> TOPIC_RSSI, payload |-> <<"l", "o", "w">>]
  /\ Len(command_queue) = 1
  /\ mqtt_sender = ALICE
  /\ running
  /\ health_label = [value |-> <<"Signal: --%">>, text_color |-> "gray"]

\* C19: when no call of process_command is in progress and a command was
\* enqueued, mqtt_sender is the sender of the command enqueued last.
C19_SenderOfLastEnqueued ==
  (pc.gui # "p110" /\ pc.mqtt # "p110" /\ enqueued # <<>>) =>
    mqtt_sender = enqueued[Len(enqueued)].sender

\* C20, as claimed: once running is cleared, the worker makes at most one
\* more write, that of the dequeue in progress; no command submitted after
\* the flag was cleared is written (the i-th command enqueued comes from a
\* call made after the flag was cleared when fewer than i calls were made
\* before).
C20_NothingNewWritten ==
  stop # NoStop =>
    /\ Len(ble_writes) <= stop.writes + 1
    /\ \A i \in (stop.writes + 1)..Len(ble_writes) :
         ble_writes[i].id <= stop.submits

\* C20, amended: once running is cleared the worker makes at most one more
\* write, of the command it had dequeued or takes at the get of the
\* iteration it is in, which may have been submitted after the flag was
\* cleared; once it has left the loop nothing is written and nothing
\* dequeued.
C20_AtMostOneMore ==
  /\ [](stop # NoStop =>
          /\ Len(ble_writes) <= stop.writes + 1
          /\ \A i \in (stop.writes + 1)..Len(ble_writes) :
               ble_writes[i].id = stop.writes + 1)
  /\ [][pc.ble = "done" =>
          (ble_writes' = ble_writes
             /\ Len(command_queue') >= Len(command_queue))]_vars

\* C20, its case: the flag was cleared with nothing queued; a command
\* submitted after that was written, the worker left the loop, and a
\* command submitted later stays queued.
C20_Witness ==
  /\ stop # NoStop
  /\ Len(ble_writes) = stop.writes + 1
  /\ ble_writes[Len(ble_writes)].id > stop.submits
  /\ pc.ble = "done"
  /\ command_queue # <<>>

====
